---- MODULE Spec2Model ----
(***************************************************************************)
(* integrity_check (src/main.go): a ledger table of files is populated by  *)
(* a concurrent directory walk of the destination tree inside one          *)
(* transaction, then two pools of 8 hash workers fill hash_new and         *)
(* hash_old from the destination and the source tree.                      *)
(*                                                                         *)
(* Strings that are paths are modelled as the sequence of their            *)
(* components, i.e. the string split on "/": "n/sub/b.txt" is              *)
(* <<"n","sub","b.txt">> and "n/" is <<"n","">>.  a + "/" + b is then the  *)
(* concatenation of the two sequences.                                     *)
(***************************************************************************)
EXTENDS Integers, Sequences, FiniteSets, Bags, TLC

VARIABLES
  conf,         \* the configuration read by load_config (never changes)
  ledger,       \* the table: a bag of rows (the table has no unique key)
  last,         \* history: how the previous process ended: "none", "finished",
                \* "died", or "rolled_back" (died with rows staged in the transaction)
  pc,           \* position of main(); "off" when no process is running
  side,         \* which hashing phase main() is in: "new" or "old"
  rows,         \* main's local rows: the count(*) read at startup
  staged,       \* rows given to the CopyIn statement of the open transaction
  txn_open,     \* the enumeration transaction is open (holds a connection)
  to_walk,      \* buffer of the channel to_walk
  walk_closed,  \* to_walk has been closed
  spawner,      \* the goroutine spawn_walkers is running
  walkers,      \* the running walk_dir goroutines, a bag of records
  walks,        \* history: the directories walk_dir was started for, a bag
  wg,           \* the counter of the global sync.WaitGroup
  res,          \* rows of the open query cursor not yet fetched, a bag
  res_open,     \* the cursor is open (holds a connection)
  filename,     \* main's local filename between res.Scan and the send
  to_hash,      \* buffer of the channel to_hash
  hash_closed,  \* to_hash has been closed
  workers,      \* the running hash goroutines, a bag of records
  open_files,   \* number of file handles the process holds open
  errlog,       \* the last error line this process logged, <<>> when none
  clean         \* history: nothing has failed in this run

vars == <<conf, ledger, last, pc, side, rows, staged, txn_open, to_walk, walk_closed,
          spawner, walkers, walks, wg, res, res_open, filename, to_hash,
          hash_closed, workers, open_files, errlog, clean>>

persistent == <<conf, ledger>>
enumvars == <<staged, txn_open, to_walk, walk_closed, spawner, walkers, walks>>
hashvars == <<res, res_open, filename, to_hash, hash_closed, workers, open_files,
             errlog, clean>>

-----------------------------------------------------------------------------
(* Program constants *)

\* main.go:135 and :170, hash_threads := 8
hash_threads == 8

\* main.go:95, make(chan string, 16)
to_walk_cap == 16

\* SQL NULL of a text column (hash_new, hash_old are never given at insert)
NULL == <<>>

\* "no string": the value of main's filename variable when it holds nothing
NoFile == <<>>

-----------------------------------------------------------------------------
(* Strings as component sequences *)

\* a + "/" + b
Slash(a, b) == a \o b

\* filepath.Clean of a relative path without "." or "..": empty components go
NonEmpty(c) == c # ""
Clean(p) == SelectSeq(p, NonEmpty)

\* filepath.Join(dir, name), as filepath.Walk builds the children's paths
Join(dir, name) == Clean(Slash(dir, <<name>>))

\* strings.HasPrefix(s, root + "/"): root + "/" is root followed by an empty
\* last component, which is a prefix of whatever component comes next
HasPrefixSlash(s, root) ==
  /\ Len(s) > Len(root)
  /\ SubSeq(s, 1, Len(root)) = root

\* strings.TrimPrefix(path, conf.New_path + "/")
TrimPrefix(s, root) ==
  IF HasPrefixSlash(s, root) THEN SubSeq(s, Len(root) + 1, Len(s)) ELSE s

-----------------------------------------------------------------------------
(* The two file trees.  A file system maps the clean path of every node to *)
(* the node.  Directories list their entries sorted, as readDirNames does. *)
(* perm "rx": listable and searchable; "x": searchable but cannot be     *)
(* listed (readDirNames fails); "r": listable, but lstat of its entries    *)
(* fails.                                                                  *)

Dir(names, perm) == [kind |-> "dir", names |-> names, perm |-> perm,
                     data |-> "", size |-> 0, mtime |-> 0]
File(data, size, mtime) == [kind |-> "file", names |-> <<>>, perm |-> "",
                            data |-> data, size |-> size, mtime |-> mtime]
Other == [kind |-> "other", names |-> <<>>, perm |-> "",
          data |-> "", size |-> 0, mtime |-> 0]

\* the scenario of the specification: destination n/ holds a.txt ("abcd") and
\* sub/b.txt (empty); in the source o/ a.txt is equal and sub/b.txt differs
TreePlain ==
  (<<"n">> :> Dir(<<"a.txt", "sub">>, "rx")) @@
  (<<"n", "a.txt">> :> File("abcd", 4, 1)) @@
  (<<"n", "sub">> :> Dir(<<"b.txt">>, "rx")) @@
  (<<"n", "sub", "b.txt">> :> File("", 0, 3)) @@
  (<<"o">> :> Dir(<<"a.txt", "sub">>, "rx")) @@
  (<<"o", "a.txt">> :> File("abcd", 4, 1)) @@
  (<<"o", "sub">> :> Dir(<<"b.txt">>, "rx")) @@
  (<<"o", "sub", "b.txt">> :> File("bb", 2, 3))

\* number of subdirectories of the wide destination tree
WideSubdirs == 2

\* the subdirectories a wide tree is made of, in the sorted order of their
\* names, each with one file; old is the data of the file in the source tree,
\* "-" when the source tree does not have the file
WideDirs ==
  << [name |-> "d",   file |-> "c.txt", data |-> "cc", size |-> 2, mtime |-> 2, old |-> "-"],
     [name |-> "sub", file |-> "b.txt", data |-> "",   size |-> 0, mtime |-> 3, old |-> "bb"],
     [name |-> "t",   file |-> "e.txt", data |-> "ee", size |-> 2, mtime |-> 4, old |-> "ee"],
     [name |-> "u",   file |-> "f.txt", data |-> "ff", size |-> 2, mtime |-> 5, old |-> "fg"] >>

WideNames(k) == [i \in 1..k |-> WideDirs[i].name]

RECURSIVE WideSubtrees(_)
WideSubtrees(k) ==
  IF k = 0 THEN <<>>
  ELSE LET d == WideDirs[k]
       IN (<<"n", d.name>> :> Dir(<<d.file>>, "rx")) @@
          (<<"n", d.name, d.file>> :> File(d.data, d.size, d.mtime)) @@
          (IF d.old = "-"
           THEN <<"o", d.name>> :> Dir(<<>>, "rx")
           ELSE (<<"o", d.name>> :> Dir(<<d.file>>, "rx")) @@
                (<<"o", d.name, d.file>> :> File(d.old, Len(d.old), d.mtime))) @@
          WideSubtrees(k - 1)

\* destination n/: a.txt and the first WideSubdirs of the subdirectories
\* d/c.txt, sub/b.txt, ...; source o/: a.txt equal, sub/b.txt different,
\* d/c.txt missing
TreeWide ==
  LET k == IF WideSubdirs < Len(WideDirs) THEN WideSubdirs ELSE Len(WideDirs)
  IN (<<"n">> :> Dir(<<"a.txt">> \o WideNames(k), "rx")) @@
     (<<"n", "a.txt">> :> File("abcd", 4, 1)) @@
     (<<"o">> :> Dir(<<"a.txt">> \o WideNames(k), "rx")) @@
     (<<"o", "a.txt">> :> File("abcd", 4, 1)) @@
     WideSubtrees(k)

\* destination n/: a.txt, a symbolic link l, and a directory p that cannot be
\* listed, holding x.txt
TreeNoList ==
  (<<"n">> :> Dir(<<"a.txt", "l", "p">>, "rx")) @@
  (<<"n", "a.txt">> :> File("abcd", 4, 1)) @@
  (<<"n", "l">> :> Other) @@
  (<<"n", "p">> :> Dir(<<"x.txt">>, "x")) @@
  (<<"n", "p", "x.txt">> :> File("xx", 2, 2)) @@
  (<<"o">> :> Dir(<<"a.txt", "p">>, "rx")) @@
  (<<"o", "a.txt">> :> File("abcd", 4, 1)) @@
  (<<"o", "p">> :> Dir(<<"x.txt">>, "rx")) @@
  (<<"o", "p", "x.txt">> :> File("xx", 2, 2))

\* destination n/: a.txt and a directory q that can be listed but not searched
TreeNoSearch ==
  (<<"n">> :> Dir(<<"a.txt", "q">>, "rx")) @@
  (<<"n", "a.txt">> :> File("abcd", 4, 1)) @@
  (<<"n", "q">> :> Dir(<<"y.txt">>, "r")) @@
  (<<"n", "q", "y.txt">> :> File("yy", 2, 2)) @@
  (<<"o">> :> Dir(<<"a.txt">>, "rx")) @@
  (<<"o", "a.txt">> :> File("abcd", 4, 1))

\* names of the entries of the tree of many files, in sorted order
ManyNames ==
  << "m01", "m02", "m03", "m04", "m05", "m06", "m07", "m08", "m09", "m10",
     "m11", "m12", "m13", "m14", "m15", "m16", "m17", "m18", "m19", "m20" >>

\* number of files of the tree of many files: more than the rows that the
\* buffer of to_hash, the workers and main's variable filename hold together
ManyRows == 17

RECURSIVE ManyNodes(_, _, _)
ManyNodes(root, k, node) ==
  IF k = 0 THEN <<>>
  ELSE (<<root, ManyNames[k]>> :> node) @@ ManyNodes(root, k - 1, node)

\* destination n/ and source o/: ManyRows files, no subdirectory
TreeRows ==
  (<<"n">> :> Dir(SubSeq(ManyNames, 1, ManyRows), "rx")) @@
  ManyNodes("n", ManyRows, File("abcd", 4, 1)) @@
  (<<"o">> :> Dir(SubSeq(ManyNames, 1, ManyRows), "rx")) @@
  ManyNodes("o", ManyRows, File("abcd", 4, 1))

Trees == [plain |-> TreePlain, wide |-> TreeWide, nolist |-> TreeNoList, nosearch |-> TreeNoSearch,
          rows |-> TreeRows]

FS == Trees[conf.tree]

\* the kernel's path resolution: repeated slashes count as one
Resolve(p) == Clean(p)
Exists(p) == Resolve(p) \in DOMAIN FS
Node(p) == FS[Resolve(p)]

\* os.Lstat(p) fails when p does not exist or its parent cannot be searched
Parent(p) == SubSeq(Resolve(p), 1, Len(Resolve(p)) - 1)
LstatOk(p) ==
  /\ Exists(p)
  /\ Len(Resolve(p)) > 1 => FS[Parent(p)].perm # "r"

\* readDirNames(p) fails when the directory cannot be listed
ReadDirOk(p) == Node(p).perm # "x"

\* os.Open(p) of a file
OpenOk(p) == LstatOk(p) /\ Node(p).kind = "file"

\* fmt.Sprintf("%x", sha256 of the data): a fixed injective function of the data
Sha256Hex(data) == <<"sha256", data>>

-----------------------------------------------------------------------------
(* Configuration (config.json).  Where_clause is a raw SQL fragment; the   *)
(* fragments modelled are "", "filename like 'P/%'" and several of these   *)
(* joined by " or ": the sequence of the prefixes P.                       *)

NoFilter == <<>>
FilterSub == << <<"sub">> >>
FilterSubOrD == << <<"sub">>, <<"d">> >>

Configs ==
  [tree : {"plain"}, New_path : {<<"n">>}, Old_path : {<<"o">>},
   Where_clause : {NoFilter}, Db_maxconnections : {0, 1}]
  \cup
  [tree : {"wide"}, New_path : {<<"n">>}, Old_path : {<<"o">>},
   Where_clause : {FilterSub, FilterSubOrD}, Db_maxconnections : {0}]
  \cup
  [tree : {"plain"}, New_path : {<<"n", "">>}, Old_path : {<<"o">>},
   Where_clause : {NoFilter}, Db_maxconnections : {0}]
  \cup
  [tree : {"nolist", "nosearch"}, New_path : {<<"n">>}, Old_path : {<<"o">>},
   Where_clause : {NoFilter}, Db_maxconnections : {0}]

\* the tree of many files, a pool of one connection
ConfigsRows ==
  [tree : {"rows"}, New_path : {<<"n">>}, Old_path : {<<"o">>},
   Where_clause : {NoFilter}, Db_maxconnections : {1}]

-----------------------------------------------------------------------------
(* The ledger *)

Row(name, size, changed) ==
  [filename |-> name, size |-> size, changed |-> changed,
   hash_new |-> NULL, hash_old |-> NULL]

\* select count(*) from T
Count == BagCardinality(ledger)

\* filename like 'P/%'
Like(name, prefix) == HasPrefixSlash(name, prefix)

\* the where clause of the pending query, "<col> is null" followed, when
\* Where_clause is not empty, by " and " and the fragment: in SQL, and binds
\* tighter than or
Where(r, col) ==
  LET W == conf.Where_clause
  IN IF W = <<>>
     THEN r[col] = NULL
     ELSE \/ (r[col] = NULL /\ Like(r.filename, W[1]))
          \/ \E i \in 2..Len(W) : Like(r.filename, W[i])

\* select filename from T where ...: the bag of the filenames selected
RECURSIVE Filenames(_)
Filenames(rs) ==
  IF rs = {} THEN EmptyBag
  ELSE LET r == CHOOSE x \in rs : TRUE
       IN (r.filename :> CopiesIn(r, ledger)) (+) Filenames(rs \ {r})

Select(col) == Filenames({r \in BagToSet(ledger) : Where(r, col)})

\* The update without its where: every row gets the value.
RECURSIVE UpdatedEveryRow(_, _, _, _)
UpdatedEveryRow(rs, col, name, v) ==
  IF rs = {} THEN EmptyBag
  ELSE LET r == CHOOSE x \in rs : TRUE
       IN ([r EXCEPT ![col] = v] :> CopiesIn(r, ledger)) (+)
          UpdatedEveryRow(rs \ {r}, col, name, v)

\* update T set <col> = v where filename = name
RECURSIVE Updated(_, _, _, _)
Updated(rs, col, name, v) ==
  IF rs = {} THEN EmptyBag
  ELSE LET r == CHOOSE x \in rs : TRUE
           u == IF r.filename = name THEN [r EXCEPT ![col] = v] ELSE r
       IN (u :> CopiesIn(r, ledger)) (+) Updated(rs \ {r}, col, name, v)

Update(col, name, v) == Updated(BagToSet(ledger), col, name, v)

\* database/sql: a connection is free when the pool is unlimited
\* (SetMaxOpenConns(n), n <= 0) or fewer than the maximum are in use
ConnsInUse == (IF txn_open THEN 1 ELSE 0) + (IF res_open THEN 1 ELSE 0)
ConnFree == conf.Db_maxconnections <= 0 \/ ConnsInUse < conf.Db_maxconnections

-----------------------------------------------------------------------------
(* Process start and end *)

\* the state of no process: every variable of a run at its zero value
NoRun ==
  /\ rows = 0
  /\ side = "new"
  /\ staged = EmptyBag
  /\ txn_open = FALSE
  /\ to_walk = <<>>
  /\ walk_closed = FALSE
  /\ spawner = FALSE
  /\ walkers = EmptyBag
  /\ walks = EmptyBag
  /\ wg = 0
  /\ res = EmptyBag
  /\ res_open = FALSE
  /\ filename = NoFile
  /\ to_hash = <<>>
  /\ hash_closed = FALSE
  /\ workers = EmptyBag
  /\ open_files = 0
  /\ errlog = <<>>
  /\ clean = TRUE

\* the same, of the next state
NoRunNext ==
  /\ rows' = 0
  /\ side' = "new"
  /\ staged' = EmptyBag
  /\ txn_open' = FALSE
  /\ to_walk' = <<>>
  /\ walk_closed' = FALSE
  /\ spawner' = FALSE
  /\ walkers' = EmptyBag
  /\ walks' = EmptyBag
  /\ wg' = 0
  /\ res' = EmptyBag
  /\ res_open' = FALSE
  /\ filename' = NoFile
  /\ to_hash' = <<>>
  /\ hash_closed' = FALSE
  /\ workers' = EmptyBag
  /\ open_files' = 0
  /\ errlog' = <<>>
  /\ clean' = TRUE

Init ==
  /\ conf \in Configs
  /\ ledger = EmptyBag
  /\ last = "none"
  /\ pc = "off"
  /\ NoRun

InitRows ==
  /\ conf \in ConfigsRows
  /\ ledger = EmptyBag
  /\ last = "none"
  /\ pc = "off"
  /\ NoRun

\* history: how a process that dies is remembered
HowDied == IF txn_open /\ staged # EmptyBag THEN "rolled_back" ELSE "died"

\* A commit-on-exit store: the staged rows of the open transaction are kept.
PanicCommits ==
  /\ pc' = "off"
  /\ last' = HowDied
  /\ NoRunNext
  /\ ledger' = ledger (+) staged
  /\ UNCHANGED conf

\* panic(err) in any goroutine, or the process being killed: everything the
\* process holds goes with it, and the store rolls back the open transaction
Panic ==
  /\ pc' = "off"
  /\ last' = HowDied
  /\ NoRunNext
  /\ UNCHANGED persistent

\* the operating system starts the program: main up to the table creation
StartRun ==
  /\ pc \in {"off", "done"}
  /\ pc' = "count"
  /\ last' = IF pc = "done" THEN "finished" ELSE last
  /\ NoRunNext
  /\ UNCHANGED persistent

\* die_if(err) with err # nil anywhere (a fatal store error), or the process
\* being killed
Die ==
  /\ pc \notin {"off", "done"}
  /\ Panic

-----------------------------------------------------------------------------
(* main: enumeration *)

\* The walk started whatever the count is.
CountRowsNoGuard ==
  /\ pc = "count"
  /\ rows' = Count
  /\ pc' = "begin"
  /\ UNCHANGED <<persistent, last, side, enumvars, wg, hashvars>>

\* select count(*) ... Scan(&rows); if rows == 0 { ... }
CountRows ==
  /\ pc = "count"
  /\ rows' = Count
  /\ pc' = IF Count = 0 THEN "begin" ELSE "query"
  /\ UNCHANGED <<persistent, last, side, enumvars, wg, hashvars>>

\* to_walk := make(...); db.Begin(); txn.Prepare(CopyIn); go spawn_walkers
Begin ==
  /\ pc = "begin"
  /\ ConnFree
  /\ txn_open' = TRUE
  /\ staged' = EmptyBag
  /\ to_walk' = <<>>
  /\ walk_closed' = FALSE
  /\ spawner' = TRUE
  /\ pc' = "add"
  /\ UNCHANGED <<persistent, last, side, rows, walkers, walks, wg, hashvars>>

\* wg.Add(1)
AddRoot ==
  /\ pc = "add"
  /\ wg' = wg + 1
  /\ pc' = "send_root"
  /\ UNCHANGED <<persistent, last, side, rows, enumvars, hashvars>>

\* to_walk <- conf.New_path
SendRoot ==
  /\ pc = "send_root"
  /\ Len(to_walk) < to_walk_cap
  /\ to_walk' = Append(to_walk, conf.New_path)
  /\ pc' = "wait_walk"
  /\ UNCHANGED <<persistent, last, side, rows, staged, txn_open, walk_closed,
                 spawner, walkers, walks, wg, hashvars>>

\* wg.Wait()
WaitWalk ==
  /\ pc = "wait_walk"
  /\ wg = 0
  /\ pc' = "close_walk"
  /\ UNCHANGED <<persistent, last, side, rows, enumvars, wg, hashvars>>

\* close(to_walk)
CloseWalk ==
  /\ pc = "close_walk"
  /\ walk_closed' = TRUE
  /\ pc' = "commit"
  /\ UNCHANGED <<persistent, last, side, rows, staged, txn_open, to_walk,
                 spawner, walkers, walks, wg, hashvars>>

\* stmt.Exec(); stmt.Close(); txn.Commit(): the staged rows become rows of
\* the table, all at once
Commit ==
  /\ pc = "commit"
  /\ ledger' = ledger (+) staged
  /\ staged' = EmptyBag
  /\ txn_open' = FALSE
  /\ pc' = "query"
  /\ UNCHANGED <<conf, last, side, rows, to_walk, walk_closed, spawner,
                 walkers, walks, wg, hashvars>>

-----------------------------------------------------------------------------
(* spawn_walkers and walk_dir *)

One(x) == SetToBag({x})

Walker(dir) == [dir |-> dir, pc |-> "walk", todo |-> <<>>]

\* for p := range to_walk { go walk_dir(p, to_walk) }
SpawnWalker ==
  /\ spawner
  /\ to_walk # <<>>
  /\ to_walk' = Tail(to_walk)
  /\ walkers' = walkers (+) One(Walker(Head(to_walk)))
  /\ walks' = walks (+) One(Head(to_walk))
  /\ UNCHANGED <<persistent, last, pc, side, rows, staged, txn_open,
                 walk_closed, spawner, wg, hashvars>>

\* the range loop ends when the channel is closed and drained
SpawnerExit ==
  /\ spawner
  /\ to_walk = <<>>
  /\ walk_closed
  /\ spawner' = FALSE
  /\ UNCHANGED <<persistent, last, pc, side, rows, staged, txn_open, to_walk,
                 walk_closed, walkers, walks, wg, hashvars>>

\* what the closure visit does with a path that filepath.Walk hands it:
\* filepath.Walk passes info = nil when lstat fails, and err # nil when lstat
\* fails or the directory cannot be listed
Visit(dir, path) ==
  LET ok == LstatOk(path)
      isdir == ok /\ Node(path).kind = "dir"
      err == ~ok \/ (isdir /\ ~ReadDirOk(path))
  IN IF path # dir /\ ~err /\ isdir THEN "enqueue"
     ELSE IF ~ok THEN "panic"
     ELSE IF Node(path).kind = "file" THEN "stage"
     ELSE "skip"

\* stmt.Exec(strings.TrimPrefix(path, conf.New_path+"/"), info.Size(), info.ModTime())
Stage(path) ==
  staged (+) One(Row(TrimPrefix(path, conf.New_path), Node(path).size, Node(path).mtime))

Swap(bag, old, new) == (bag (-) One(old)) (+) One(new)

\* filepath.Walk(dir, visit) up to the visit of dir itself
WalkRoot(w) ==
  /\ w.pc = "walk"
  /\ LET out == Visit(w.dir, w.dir)
         names == IF out = "skip" /\ Node(w.dir).kind = "dir" /\ ReadDirOk(w.dir)
                  THEN Node(w.dir).names ELSE <<>>
     IN IF out = "panic"
        THEN Panic
        ELSE /\ walkers' = Swap(walkers, w, [w EXCEPT !.pc = "child", !.todo = names])
             /\ staged' = IF out = "stage" THEN Stage(w.dir) ELSE staged
             /\ UNCHANGED <<persistent, last, pc, side, rows, txn_open, to_walk,
                            walk_closed, spawner, walks, wg, hashvars>>

\* The subdirectory is queued without wg.Add(1).
WalkChildNoAdd(w) ==
  /\ w.pc = "child"
  /\ w.todo # <<>>
  /\ LET path == Join(w.dir, Head(w.todo))
         out == Visit(w.dir, path)
         next == [w EXCEPT !.todo = Tail(w.todo)]
     IN CASE out = "panic" -> Panic
          [] out = "enqueue" ->
               /\ walkers' = Swap(walkers, w, [w EXCEPT !.pc = "send"])
               /\ UNCHANGED <<persistent, last, pc, side, rows, staged, txn_open,
                              to_walk, walk_closed, spawner, walks, wg, hashvars>>
          [] out = "stage" ->
               /\ staged' = Stage(path)
               /\ walkers' = Swap(walkers, w, next)
               /\ UNCHANGED <<persistent, last, pc, side, rows, txn_open, to_walk,
                              walk_closed, spawner, walks, wg, hashvars>>
          [] out = "skip" ->
               /\ walkers' = Swap(walkers, w, next)
               /\ UNCHANGED <<persistent, last, pc, side, rows, staged, txn_open,
                              to_walk, walk_closed, spawner, walks, wg, hashvars>>

\* filepath.Walk's loop over the sorted names: one entry of the directory
WalkChild(w) ==
  /\ w.pc = "child"
  /\ w.todo # <<>>
  /\ LET path == Join(w.dir, Head(w.todo))
         out == Visit(w.dir, path)
         next == [w EXCEPT !.todo = Tail(w.todo)]
     IN CASE out = "panic" -> Panic
          [] out = "enqueue" ->
               \* wg.Add(1), then the send blocks or goes through
               /\ wg' = wg + 1
               /\ walkers' = Swap(walkers, w, [w EXCEPT !.pc = "send"])
               /\ UNCHANGED <<persistent, last, pc, side, rows, staged, txn_open,
                              to_walk, walk_closed, spawner, walks, hashvars>>
          [] out = "stage" ->
               /\ staged' = Stage(path)
               /\ walkers' = Swap(walkers, w, next)
               /\ UNCHANGED <<persistent, last, pc, side, rows, txn_open, to_walk,
                              walk_closed, spawner, walks, wg, hashvars>>
          [] out = "skip" ->
               /\ walkers' = Swap(walkers, w, next)
               /\ UNCHANGED <<persistent, last, pc, side, rows, staged, txn_open,
                              to_walk, walk_closed, spawner, walks, wg, hashvars>>

\* to_walk <- path; return filepath.SkipDir.  A send on a closed channel panics
WalkSend(w) ==
  /\ w.pc = "send"
  /\ IF walk_closed
     THEN Panic
     ELSE /\ Len(to_walk) < to_walk_cap
          /\ to_walk' = Append(to_walk, Join(w.dir, Head(w.todo)))
          /\ walkers' = Swap(walkers, w, [w EXCEPT !.pc = "child", !.todo = Tail(w.todo)])
          /\ UNCHANGED <<persistent, last, pc, side, rows, staged, txn_open,
                         walk_closed, spawner, walks, wg, hashvars>>

\* filepath.Walk returns; defer wg.Done()
WalkDone(w) ==
  /\ w.pc = "child"
  /\ w.todo = <<>>
  /\ wg' = wg - 1
  /\ walkers' = walkers (-) One(w)
  /\ UNCHANGED <<persistent, last, pc, side, rows, staged, txn_open, to_walk,
                 walk_closed, spawner, walks, hashvars>>

walk_dir ==
  \E w \in BagToSet(walkers) :
     WalkRoot(w) \/ WalkChild(w) \/ WalkSend(w) \/ WalkDone(w)

-----------------------------------------------------------------------------
(* main: a hashing phase (lines 125-153 for hash_new, 160-188 for hash_old) *)

Column(fn) == IF fn = "new" THEN "hash_new" ELSE "hash_old"

Hasher(fn) == [fn |-> fn, pc |-> "recv", file |-> NoFile, sum |-> NULL]

\* res, err := db.Query(query); to_hash := make(chan string, hash_threads);
\* wg.Add(hash_threads); hash_threads times go hash_<side>_file(to_hash)
Query ==
  /\ pc = "query"
  /\ ConnFree
  /\ res' = Select(Column(side))
  /\ res_open' = TRUE
  /\ to_hash' = <<>>
  /\ hash_closed' = FALSE
  /\ wg' = wg + hash_threads
  /\ workers' = workers (+) (Hasher(side) :> hash_threads)
  /\ pc' = "next"
  /\ UNCHANGED <<persistent, last, side, rows, enumvars, filename, open_files, errlog, clean>>

\* res.Next() is true; res.Scan(&filename).  The order of the rows is the
\* store's choice
NextRow ==
  /\ pc = "next"
  /\ \E f \in BagToSet(res) :
        /\ filename' = f
        /\ res' = res (-) One(f)
  /\ pc' = "send"
  /\ UNCHANGED <<persistent, last, side, rows, enumvars, wg, res_open, to_hash,
                 hash_closed, workers, open_files, errlog, clean>>

\* res.Next() is false: the rows are exhausted, or the cursor broke (res.Err()
\* is not looked at); either way database/sql closes the cursor
NextEnd ==
  /\ pc = "next"
  /\ \/ res = EmptyBag /\ UNCHANGED clean
     \/ res # EmptyBag /\ clean' = FALSE
  /\ res' = EmptyBag
  /\ res_open' = FALSE
  /\ pc' = "close_hash"
  /\ UNCHANGED <<persistent, last, side, rows, enumvars, wg, filename, to_hash,
                 hash_closed, workers, open_files, errlog>>

\* to_hash <- filename
Send ==
  /\ pc = "send"
  /\ Len(to_hash) < hash_threads
  /\ to_hash' = Append(to_hash, filename)
  /\ filename' = NoFile
  /\ pc' = "next"
  /\ UNCHANGED <<persistent, last, side, rows, enumvars, wg, res, res_open,
                 hash_closed, workers, open_files, errlog, clean>>

\* res.Close(); close(to_hash)
CloseHash ==
  /\ pc = "close_hash"
  /\ hash_closed' = TRUE
  /\ pc' = "wait_hash"
  /\ UNCHANGED <<persistent, last, side, rows, enumvars, wg, res, res_open,
                 filename, to_hash, workers, open_files, errlog, clean>>

\* The wait of line 153 left out: main goes on while workers still run.
WaitHashNoWait ==
  /\ pc = "wait_hash"
  /\ pc' = IF side = "new" THEN "query" ELSE "done"
  /\ side' = "old"
  /\ UNCHANGED <<persistent, last, rows, enumvars, wg, hashvars>>

\* wg.Wait(), then on to the old hashes, or main returns
WaitHash ==
  /\ pc = "wait_hash"
  /\ wg = 0
  /\ pc' = IF side = "new" THEN "query" ELSE "done"
  /\ side' = "old"
  /\ UNCHANGED <<persistent, last, rows, enumvars, wg, hashvars>>

-----------------------------------------------------------------------------
(* hash_new_file and hash_old_file: the same loop over root and column *)

\* return in the place of continue: the worker ends on the first failure.
FailReturn(w, what) ==
  /\ errlog' = <<what, w.fn>> \o w.file
  /\ clean' = FALSE
  /\ workers' = workers (-) One(w)

\* l.Print("error opening: ", file, ...), l.Print("error reading from ", file,
\* ...), l.Print("error adding hash to DB: ", err); continue
Fail(w, what) ==
  /\ errlog' = <<what, w.fn>> \o w.file
  /\ clean' = FALSE
  /\ workers' = Swap(workers, w, Hasher(w.fn))

\* The worker returns as soon as the queue is closed, drained or not.
RecvUntilClosed(w) ==
  /\ w.pc = "recv"
  /\ \/ /\ to_hash # <<>>
        /\ to_hash' = Tail(to_hash)
        /\ workers' = Swap(workers, w, [w EXCEPT !.pc = "open", !.file = Head(to_hash)])
        /\ UNCHANGED wg
     \/ /\ hash_closed
        /\ workers' = workers (-) One(w)
        /\ wg' = wg - 1
        /\ UNCHANGED to_hash
  /\ UNCHANGED <<persistent, last, pc, side, rows, enumvars, res, res_open,
                 filename, hash_closed, open_files, errlog, clean>>

\* file, ok := <- to_hash; if !ok { return } with the deferred wg.Done()
Recv(w) ==
  /\ w.pc = "recv"
  /\ \/ /\ to_hash # <<>>
        /\ to_hash' = Tail(to_hash)
        /\ workers' = Swap(workers, w, [w EXCEPT !.pc = "open", !.file = Head(to_hash)])
        /\ UNCHANGED wg
     \/ /\ to_hash = <<>>
        /\ hash_closed
        /\ workers' = workers (-) One(w)
        /\ wg' = wg - 1
        /\ UNCHANGED to_hash
  /\ UNCHANGED <<persistent, last, pc, side, rows, enumvars, res, res_open,
                 filename, hash_closed, open_files, errlog, clean>>

\* f, err := os.Open(root + "/" + file); if err != nil { continue }.
\* An open of an existing file can fail too (EMFILE, EIO)
Open(w, root) ==
  /\ w.pc = "open"
  /\ \/ /\ OpenOk(Slash(root, w.file))
        /\ workers' = Swap(workers, w, [w EXCEPT !.pc = "copy"])
        /\ open_files' = open_files + 1
        /\ UNCHANGED <<errlog, clean>>
     \/ /\ Fail(w, "error opening")
        /\ UNCHANGED open_files
  /\ UNCHANGED <<persistent, last, pc, side, rows, enumvars, wg, res, res_open,
                 filename, to_hash, hash_closed>>

\* io.Copy(h, f); on an error f.Close() and continue; hash := h.Sum(nil)
Copy(w, root) ==
  /\ w.pc = "copy"
  /\ \/ /\ workers' = Swap(workers, w,
                      [w EXCEPT !.pc = "exec", !.sum = Sha256Hex(Node(Slash(root, w.file)).data)])
        /\ UNCHANGED <<open_files, errlog, clean>>
     \/ /\ Fail(w, "error reading")
        /\ open_files' = open_files - 1
  /\ UNCHANGED <<persistent, last, pc, side, rows, enumvars, wg, res, res_open,
                 filename, to_hash, hash_closed>>

\* db.Exec("update T set <column> = $2 where filename = $1", file, hash):
\* waits for a free connection; on an error continue, else f.Close()
Exec(w, column) ==
  /\ w.pc = "exec"
  /\ ConnFree
  /\ \/ /\ ledger' = Update(column, w.file, w.sum)
        /\ open_files' = open_files - 1
        /\ workers' = Swap(workers, w, Hasher(w.fn))
        /\ UNCHANGED <<errlog, clean>>
     \/ /\ Fail(w, "error adding hash")
        /\ UNCHANGED <<ledger, open_files>>
  /\ UNCHANGED <<conf, last, pc, side, rows, enumvars, wg, res, res_open,
                 filename, to_hash, hash_closed>>

hash_new_file ==
  \E w \in BagToSet(workers) :
     /\ w.fn = "new"
     /\ Recv(w) \/ Open(w, conf.New_path) \/ Copy(w, conf.New_path) \/ Exec(w, "hash_new")

\* hash_old_file as a copy of hash_new_file with only the column changed: it
\* reads under conf.New_path.
hash_old_file_new_path ==
  \E w \in BagToSet(workers) :
     /\ w.fn = "old"
     /\ Recv(w) \/ Open(w, conf.New_path) \/ Copy(w, conf.New_path) \/ Exec(w, "hash_old")

hash_old_file ==
  \E w \in BagToSet(workers) :
     /\ w.fn = "old"
     /\ Recv(w) \/ Open(w, conf.Old_path) \/ Copy(w, conf.Old_path) \/ Exec(w, "hash_old")

-----------------------------------------------------------------------------

Next ==
  \/ StartRun
  \/ Die
  \/ CountRows
  \/ Begin
  \/ AddRoot
  \/ SendRoot
  \/ WaitWalk
  \/ CloseWalk
  \/ Commit
  \/ SpawnWalker
  \/ SpawnerExit
  \/ walk_dir
  \/ Query
  \/ NextRow
  \/ NextEnd
  \/ Send
  \/ CloseHash
  \/ WaitHash
  \/ hash_new_file
  \/ hash_old_file

Spec == Init /\ [][Next]_vars

\* the steps of the goroutine main
main == \/ CountRows \/ Begin \/ AddRoot \/ SendRoot \/ WaitWalk \/ CloseWalk
        \/ Commit \/ Query \/ NextRow \/ NextEnd \/ Send \/ CloseHash \/ WaitHash

\* the steps of the goroutine spawn_walkers
spawn_walkers == SpawnWalker \/ SpawnerExit

\* the Go scheduler lets every goroutine that can run take a step; the start
\* of the program and its death by a fatal error or a kill are not forced
Fairness ==
  /\ WF_vars(main)
  /\ WF_vars(spawn_walkers)
  /\ WF_vars(walk_dir)
  /\ WF_vars(hash_new_file)
  /\ WF_vars(hash_old_file)

\* the runs of Spec under fair scheduling
SpecFair == Init /\ [][Next]_vars /\ Fairness

\* the store hands out the rows of the cursor in the order of their names (one
\* of the orders it may choose)
NameIndex(f) == CHOOSE i \in 1..Len(ManyNames) : <<ManyNames[i]>> = f
FirstPending ==
  CHOOSE f \in BagToSet(res) : \A g \in BagToSet(res) : NameIndex(f) <= NameIndex(g)
NextRowInOrder == NextRow /\ filename' = FirstPending

\* the steps of hash_new_file in which nothing fails
HashNewNoFailure == hash_new_file /\ clean'

\* runs over the tree of many files with one connection, up to the point
\* they reach: no failure of a query, a file or an update, and no kill
RunRows ==
  \/ StartRun
  \/ CountRows
  \/ Begin
  \/ AddRoot
  \/ SendRoot
  \/ WaitWalk
  \/ CloseWalk
  \/ Commit
  \/ SpawnWalker
  \/ SpawnerExit
  \/ walk_dir
  \/ Query
  \/ NextRowInOrder
  \/ Send
  \/ HashNewNoFailure

SpecRows == InitRows /\ [][RunRows]_vars

-----------------------------------------------------------------------------
(* Vocabulary of the properties *)

EnumPcs == {"begin", "add", "send_root", "wait_walk", "close_walk", "commit"}
HashPcs == {"query", "next", "send", "close_hash", "wait_hash"}

Names(seq) == {seq[i] : i \in 1..Len(seq)}

\* this run walked the tree and committed
Enumerated == pc \in HashPcs \cup {"done"} /\ rows = 0

\* the regular files under the destination root, and their names relative to it
RootDir == Resolve(conf.New_path)
RegularFiles ==
  {p \in DOMAIN FS : /\ Len(p) > Len(RootDir)
                     /\ SubSeq(p, 1, Len(RootDir)) = RootDir
                     /\ FS[p].kind = "file"}
Relative(p) == SubSeq(p, Len(RootDir) + 1, Len(p))

RowsOf(name) == {r \in BagToSet(ledger) : r.filename = name}

\* number of rows, counted with their multiplicity, whose column col is null
RECURSIVE Copies(_)
Copies(rs) ==
  IF rs = {} THEN 0
  ELSE LET r == CHOOSE x \in rs : TRUE
       IN CopiesIn(r, ledger) + Copies(rs \ {r})
NullCount(col) == Copies({r \in BagToSet(ledger) : r[col] = NULL})

\* the filter as a predicate on a row
MatchesFilter(r) ==
  \/ conf.Where_clause = <<>>
  \/ \E i \in 1..Len(conf.Where_clause) : Like(r.filename, conf.Where_clause[i])

-----------------------------------------------------------------------------
(* C1: when the enumeration of an empty ledger has committed, the ledger    *)
(* holds exactly one row for every regular file under the destination root, *)
(* named by the path relative to the root, with both hashes null and no     *)
(* other row, and no directory was walked twice.                            *)
C1_ExactlyOneRowPerFile ==
  (Enumerated /\ pc = "query" /\ side = "new") =>
     /\ \A p \in RegularFiles :
           CopiesIn(Row(Relative(p), FS[p].size, FS[p].mtime), ledger) = 1
     /\ \A r \in BagToSet(ledger) :
           \E p \in RegularFiles : r = Row(Relative(p), FS[p].size, FS[p].mtime)
     /\ \A d \in BagToSet(walks) : CopiesIn(d, walks) = 1

\* The same of the trees whose directories can all be listed, with a root
\* configured without a trailing slash.
C1_ReadableTrees ==
  (conf.tree \in {"plain", "wide"} /\ conf.New_path = Clean(conf.New_path))
     => C1_ExactlyOneRowPerFile

-----------------------------------------------------------------------------
(* C2: the ledger never holds two rows with the same filename, over any     *)
(* sequence of runs that complete or die anywhere; the walk runs only when  *)
(* the count read at startup is zero and is skipped when it is not.         *)
C2_NoDuplicateRows ==
  /\ \A r \in BagToSet(ledger) :
        /\ CopiesIn(r, ledger) = 1
        /\ RowsOf(r.filename) = {r}
  /\ pc \in EnumPcs => rows = 0
  /\ rows > 0 => /\ pc \notin EnumPcs
                 /\ ~txn_open /\ staged = EmptyBag
                 /\ walks = EmptyBag /\ walkers = EmptyBag

\* a later run finds the ledger populated by a run that died after its commit,
\* and has skipped the walk
C2_Witness ==
  /\ last = "died"
  /\ rows > 0
  /\ pc = "next"
  /\ walks = EmptyBag

-----------------------------------------------------------------------------
(* C3: the phases of a run do not overlap.  While a pending query is being  *)
(* set up or served, the transaction is committed and no walker is left;    *)
(* every running hash worker belongs to the phase main is in; a pending     *)
(* query is issued only when no hash worker is running.                     *)
C3_PhasesDoNotOverlap ==
  /\ (pc \in HashPcs \cup {"done"} \/ workers # EmptyBag \/ res_open) =>
        /\ walkers = EmptyBag
        /\ to_walk = <<>>
        /\ ~txn_open
        /\ staged = EmptyBag
  /\ walkers # EmptyBag => workers = EmptyBag
  /\ \A w \in BagToSet(workers) : w.fn = side /\ pc \in HashPcs \ {"query"}
  /\ pc = "query" => workers = EmptyBag /\ ~res_open /\ wg = 0
  /\ pc = "done" => workers = EmptyBag /\ ~res_open /\ wg = 0

\* one run went through all three phases: it walked, and its source-side
\* workers are busy
C3_Witness ==
  /\ Enumerated
  /\ side = "old"
  /\ \E w \in BagToSet(workers) : w.pc = "exec"

-----------------------------------------------------------------------------
(* C4: in every reachable state, a non-null hash_new of a row is the digest *)
(* of the data of the file at destination root + "/" + filename, and a      *)
(* non-null hash_old is the digest of the data of the file at source root   *)
(* + "/" + filename.                                                        *)
DigestAt(root, name) == Sha256Hex(Node(Slash(root, name)).data)

C4_HashIsDigestOfItsFile ==
  \A r \in BagToSet(ledger) :
     /\ r.hash_new # NULL =>
           /\ OpenOk(Slash(conf.New_path, r.filename))
           /\ r.hash_new = DigestAt(conf.New_path, r.filename)
     /\ r.hash_old # NULL =>
           /\ OpenOk(Slash(conf.Old_path, r.filename))
           /\ r.hash_old = DigestAt(conf.Old_path, r.filename)

\* a row holds both digests, and they differ as the two files do
C4_Witness ==
  \E r \in BagToSet(ledger) :
     /\ r.hash_new # NULL
     /\ r.hash_old # NULL
     /\ r.hash_new # r.hash_old

-----------------------------------------------------------------------------
(* C5: a step in which a hash worker logs a failure of its item (open,      *)
(* read or update) changes no row of the ledger, and leaves that worker     *)
(* running and waiting for the next item; so until main closes the queue    *)
(* all 8 workers of the phase are there to take the remaining items.        *)
FailureStep == errlog' # errlog /\ errlog' # <<>>

C5_FailureSkipsOnlyTheItem ==
  /\ [][FailureStep =>
          /\ ledger' = ledger
          /\ pc' = pc
          /\ BagCardinality(workers') = BagCardinality(workers)
          /\ CopiesIn(Hasher(side), workers') = CopiesIn(Hasher(side), workers) + 1
          /\ wg' = wg]_vars
  /\ []((pc \in {"next", "send", "close_hash"} /\ ~hash_closed) =>
          BagCardinality(workers) = hash_threads)

\* the update of one item failed and its row is still pending, while another
\* item of the same phase has been hashed and stored, and the phase has been
\* served to its end
C5_Witness ==
  /\ Enumerated
  /\ side = "new"
  /\ pc = "wait_hash"
  /\ Len(errlog) > 2
  /\ errlog[1] = "error adding hash"
  /\ \A r \in RowsOf(SubSeq(errlog, 3, Len(errlog))) : r.hash_new = NULL
  /\ \E r \in BagToSet(ledger) : r.hash_new # NULL

-----------------------------------------------------------------------------
(* C6: enumeration is all or nothing.  While the transaction is open the    *)
(* ledger is as it was before, empty; a step taken with the transaction     *)
(* open either leaves the ledger alone or is the commit, which adds all the *)
(* staged rows at once; a process that dies with the transaction open       *)
(* leaves the ledger empty, and a run that reads the count zero walks       *)
(* again with nothing staged.                                               *)
C6_EnumerationAllOrNothing ==
  /\ [](txn_open => ledger = EmptyBag)
  /\ [][txn_open =>
          \/ ledger' = ledger
          \/ pc = "commit" /\ pc' = "query" /\ ledger' = ledger (+) staged]_vars
  /\ [][(txn_open /\ pc' = "off") => ledger' = EmptyBag]_vars
  /\ [](pc = "begin" => rows = 0 /\ staged = EmptyBag /\ ledger = EmptyBag)

\* the previous process died with rows staged, and this run has read the
\* count zero and staged rows again
C6_Witness ==
  /\ last = "rolled_back"
  /\ pc = "commit"
  /\ rows = 0
  /\ staged # EmptyBag
  /\ ledger = EmptyBag

-----------------------------------------------------------------------------
(* C7: idempotent convergence.  The number of rows with a null hash_new and *)
(* the number with a null hash_old never increase, and a fully successful   *)
(* run (every file open, read and point update succeeds) ends with no row   *)
(* having a null hash_new or a null hash_old.  Stated here is what the      *)
(* claim says of a run that ends: with no filter configured, a run in which *)
(* no open, no read and no update failed (the workers logged no error)      *)
(* leaves no null hash.                                                     *)

\* no worker logged a failed open, read or update in this run
NoItemFailed == errlog = <<>>

C7_SuccessfulRunLeavesNoNull ==
  (pc = "done" /\ NoItemFailed /\ conf.Where_clause = NoFilter) =>
     NullCount("hash_new") = 0 /\ NullCount("hash_old") = 0

-----------------------------------------------------------------------------
(* C8: no row whose hash for the side of the running phase is already set   *)
(* is fetched from the cursor, put on the work queue, opened or updated     *)
(* again: every filename in the cursor, in main's hands, in the queue or    *)
(* with a worker names rows whose column of that side is null.              *)
InFlight ==
  BagToSet(res) \cup Names(to_hash) \cup
  {w.file : w \in {x \in BagToSet(workers) : x.pc # "recv"}} \cup
  (IF pc = "send" THEN {filename} ELSE {})

C8_OnlyPendingRowsAreTouched ==
  \A name \in InFlight :
     \A r \in RowsOf(name) : r[Column(side)] = NULL

-----------------------------------------------------------------------------
(* C9: each hash column of each row is written at most once, every update   *)
(* being a set-if-currently-null: a step in which a worker's update goes    *)
(* through finds the column null in the rows of its filename, and a step    *)
(* never changes a column that is set.                                      *)
UpdateStep(w) ==
  /\ w.pc = "exec"
  /\ workers' = Swap(workers, w, Hasher(w.fn))
  /\ errlog' = errlog
  /\ pc' = pc

C9_WrittenAtMostOnce ==
  /\ [][\A w \in BagToSet(workers) :
          UpdateStep(w) => \A r \in RowsOf(w.file) : r[Column(w.fn)] = NULL]_vars
  /\ [][\A r \in BagToSet(ledger) : \A col \in {"hash_new", "hash_old"} :
          r[col] # NULL =>
             \E q \in BagToSet(ledger') : q.filename = r.filename /\ q[col] = r[col]]_vars

-----------------------------------------------------------------------------
(* C10: with a filter configured, the pending query of a hashing phase      *)
(* returns exactly the rows whose hash of that side is null and that        *)
(* satisfy the filter, and a row that does not satisfy the filter is never  *)
(* changed.                                                                 *)
Pending(col) ==
  Filenames({r \in BagToSet(ledger) : r[col] = NULL /\ MatchesFilter(r)})

C10_FilterSelectsPendingAndMatching ==
  /\ [][(pc = "query" /\ pc' = "next") => res' = Pending(Column(side))]_vars
  /\ [](\A r \in BagToSet(ledger) :
          ~MatchesFilter(r) => r.hash_new = NULL /\ r.hash_old = NULL)

-----------------------------------------------------------------------------
(* C11: a directory under the destination root that cannot be listed, or    *)
(* whose entries cannot be examined, is fatal for the enumeration: a run    *)
(* that has committed its walk had every directory under the root readable. *)
Directories ==
  {p \in DOMAIN FS : /\ Len(p) >= Len(RootDir)
                     /\ SubSeq(p, 1, Len(RootDir)) = RootDir
                     /\ FS[p].kind = "dir"}

C11_UnreadableDirectoryIsFatal ==
  Enumerated => \A p \in Directories : FS[p].perm = "rx"

-----------------------------------------------------------------------------
(* C12: every hashing phase terminates, whatever the pending rows and the   *)
(* failures.  A phase that has not ended is never stuck: main or one of the *)
(* workers can take its next step.                                          *)
HashStep ==
  \/ Query \/ NextRow \/ NextEnd \/ Send \/ CloseHash \/ WaitHash
  \/ hash_new_file \/ hash_old_file

C12_HashingPhaseNeverStuck == pc \in HashPcs => ENABLED HashStep

-----------------------------------------------------------------------------
(* C13: the termination detection of the enumeration is sound.  From the    *)
(* submission of the root on, the counter is the number of directories in   *)
(* the queue plus the walkers running plus the subdirectories a walker has  *)
(* counted and is about to send (plus the root before main has sent it):    *)
(* when it is zero nothing is queued and no walker runs.  So the queue is   *)
(* closed only when all walking has ended, no walker sends on the closed    *)
(* queue, and the flush and commit never run while a walker can still stage *)
(* a row.                                                                   *)
Sending ==
  BagCardinality([w \in {x \in BagToSet(walkers) : x.pc = "send"} |-> CopiesIn(w, walkers)])

C13_CounterCoversPendingWork ==
  /\ pc \in {"send_root", "wait_walk", "close_walk", "commit"} =>
       wg = Len(to_walk) + BagCardinality(walkers) + Sending
            + (IF pc = "send_root" THEN 1 ELSE 0)
  /\ (pc \in {"close_walk", "commit"} \/ walk_closed) =>
       to_walk = <<>> /\ walkers = EmptyBag

\* the counter is back at zero after the root and a subdirectory were walked
C13_Witness ==
  /\ pc = "wait_walk"
  /\ wg = 0
  /\ BagCardinality(walks) >= 2

-----------------------------------------------------------------------------
(* C14: the enumeration ends without deadlock: under fair scheduling a      *)
(* walker blocked in its send on the full queue is unblocked, and main's    *)
(* wait for the walkers returns (or the process dies).  Over the trees of   *)
(* Spec, which never fill to_walk, this is checked under SpecFair; a tree   *)
(* with more than to_walk_cap subdirectories pending at once has too many   *)
(* interleavings of its walkers to be explored to the end.                  *)
BlockedSender ==
  /\ Len(to_walk) = to_walk_cap
  /\ \E w \in BagToSet(walkers) : w.pc = "send"

C14_EnumerationTerminates ==
  /\ [](BlockedSender => spawner /\ ~walk_closed)
  /\ BlockedSender ~> ~BlockedSender
  /\ (pc = "wait_walk") ~> (pc # "wait_walk")

-----------------------------------------------------------------------------
(* C15: within a hashing phase every filename the cursor returned is        *)
(* received by exactly one worker, once.  No filename is in two places at   *)
(* once (cursor, main's variable, queue, a worker's hands) nor in the hands *)
(* of two workers; a receive takes the head of the queue into the hands of  *)
(* one worker; closing the queue keeps what is buffered; a worker ends only *)
(* on the closed and drained queue, so the phase ends with nothing left.    *)
HoldingIn(ws, f) ==
  BagCardinality([w \in {x \in BagToSet(ws) : x.pc # "recv" /\ x.file = f}
                    |-> CopiesIn(w, ws)])

Holding(f) == HoldingIn(workers, f)

Queued(f) == Cardinality({i \in 1..Len(to_hash) : to_hash[i] = f})

Places(f) ==
  CopiesIn(f, res) + (IF pc = "send" /\ filename = f THEN 1 ELSE 0) + Queued(f) + Holding(f)

C15_EachFilenameToOneWorkerOnce ==
  /\ [](\A f \in InFlight : Places(f) = 1)
  /\ [](pc = "wait_hash" /\ wg = 0 => to_hash = <<>> /\ workers = EmptyBag)
  /\ [][/\ (pc' = pc /\ Len(to_hash') < Len(to_hash)) =>
              /\ to_hash' = Tail(to_hash)
              /\ HoldingIn(workers', Head(to_hash)) = 1
              /\ BagCardinality(workers') = BagCardinality(workers)
        /\ (hash_closed' /\ ~hash_closed) => to_hash' = to_hash
        /\ (pc' = pc /\ BagCardinality(workers') < BagCardinality(workers)) =>
              to_hash = <<>> /\ hash_closed]_vars

\* the queue was closed with a filename still buffered, and a worker has
\* received another
C15_Witness ==
  /\ hash_closed
  /\ to_hash # <<>>
  /\ \E w \in BagToSet(workers) : w.pc = "open"

-----------------------------------------------------------------------------
(* C16: the frame of a hash update.  Rows come into the ledger only with    *)
(* the commit of the enumeration and never leave it; any other step that    *)
(* changes the ledger is the update of one worker of the current phase and  *)
(* changes, in the rows of the filename it was given, the column of its     *)
(* phase to its digest and nothing else, and leaves every other row as it   *)
(* was.                                                                     *)
Written(r, w) ==
  IF w.fn = "new" THEN [r EXCEPT !.hash_new = w.sum] ELSE [r EXCEPT !.hash_old = w.sum]

C16_UpdateChangesOneColumnOfOneRow ==
  /\ [][BagCardinality(ledger') # BagCardinality(ledger) => pc = "commit"]_vars
  /\ [][(ledger' # ledger /\ pc # "commit") =>
          \E w \in BagToSet(workers) :
             /\ UpdateStep(w)
             /\ w.fn = side
             /\ \A r \in BagToSet(ledger) :
                   IF r.filename = w.file
                   THEN CopiesIn(Written(r, w), ledger') >= CopiesIn(r, ledger)
                   ELSE CopiesIn(r, ledger') = CopiesIn(r, ledger)]_vars

\* one row has its new hash and nothing else, the other row is as enumerated
C16_Witness ==
  /\ \E r \in BagToSet(ledger) : r.hash_new # NULL /\ r.hash_old = NULL
  /\ \E q \in BagToSet(ledger) : q.hash_new = NULL /\ q.hash_old = NULL

-----------------------------------------------------------------------------
(* C17: backpressure.  The queue to_hash never holds more than hash_threads *)
(* filenames and main cannot send while it is full; at most hash_threads    *)
(* files are being hashed at a time; so the filenames fetched from the      *)
(* cursor and not yet finished are at most 2 * hash_threads + 1, however    *)
(* many rows are pending.                                                   *)
Busy ==
  BagCardinality([w \in {x \in BagToSet(workers) : x.pc # "recv"} |-> CopiesIn(w, workers)])

Fetched == (IF pc = "send" THEN 1 ELSE 0) + Len(to_hash) + Busy

C17_Backpressure ==
  /\ Len(to_hash) <= hash_threads
  /\ Len(to_hash) = hash_threads => ~ENABLED Send
  /\ Busy <= hash_threads
  /\ Fetched <= 2 * hash_threads + 1

-----------------------------------------------------------------------------
(* C18: a worker closes the file it opened before it takes its next item,   *)
(* whatever the outcome: the handles held open are those of the workers     *)
(* that are reading a file or updating its row, never more than there are   *)
(* workers, and none when the phase has ended.                              *)
HoldingFile ==
  BagCardinality([w \in {x \in BagToSet(workers) : x.pc \in {"copy", "exec"}}
                    |-> CopiesIn(w, workers)])

C18_FileClosedOnEveryOutcome ==
  /\ open_files = HoldingFile
  /\ open_files <= hash_threads
  /\ (pc = "wait_hash" /\ wg = 0) => open_files = 0

-----------------------------------------------------------------------------
(* C19: a hashing phase completes for every pool maximum of one or more:    *)
(* main, which holds the cursor's connection, and the workers, which need   *)
(* one for each update, never wait on each other for ever.  Stated as the   *)
(* absence of the circular wait: main blocked in its send on the full       *)
(* queue while every worker waits for a connection that only the end of     *)
(* main's cursor would free.                                                *)
CircularWait ==
  /\ pc = "send"
  /\ Len(to_hash) = hash_threads
  /\ res_open
  /\ ~ConnFree
  /\ BagCardinality(workers) = hash_threads
  /\ \A w \in BagToSet(workers) : w.pc = "exec"

C19_NoCircularWait == ~CircularWait

====
